---- MODULE Spec2Model ----
(***************************************************************************)
(* Model of fix-zip.py: the ZIP64 "Total Number of Disks" patcher.         *)
(*                                                                         *)
(* A file is a sequence of bytes (0..255).  Python offsets are 0-based,    *)
(* TLA+ sequences 1-based: byte k of a file is bytes[k+1].                 *)
(*                                                                         *)
(* fix_zip is a sequential routine with no suspension point, so one        *)
(* invocation is one step; the I/O calls it makes are kept in a log.       *)
(* Hardware read/write failures are not modelled; the failures modelled    *)
(* are the ones the file system's state decides: a missing file, an open   *)
(* refused by permissions, a seek before the start of a short file.        *)
(***************************************************************************)
EXTENDS Integers, Sequences, FiniteSets, TLC

VARIABLES fs, pc, argv, args, calls

vars == <<fs, pc, argv, args, calls>>

\* ------------------------------------------------------------------ bounds
MaxCalls == 2      \* invocations of fix_zip made by an external caller
MaxPad == 1        \* bytes between the local header and the 42-byte trailer
MaxArgs == 2       \* positional arguments on the command line

\* --------------------------------------------------------- program constants
ZIP_LOCAL_HDR_SIG == <<80, 75, 3, 4>>
ZIP_END_CENTRAL_HDR_SIG == <<80, 75, 5, 6>>
CORRECT_OFFSET == <<255, 255, 255, 255>>
ZIP64_END_CENTRAL_LOC_HDR_SIG == <<80, 75, 6, 7>>

Min(a, b) == IF a < b THEN a ELSE b
Max(a, b) == IF a > b THEN a ELSE b

\* Python's s[a:b] for 0 <= a <= b: clamped to the length of s.
Slice(s, a, b) == SubSeq(s, a + 1, Min(b, Len(s)))

\* f.read(n) at position pos: at most n bytes, fewer at end of file.
read(bytes, pos, n) == Slice(bytes, pos, pos + n)

\* f.seek(off, os.SEEK_END): the new position; negative means OSError(EINVAL).
seek_end(bytes, off) == Len(bytes) + off

\* f.write(data) at position pos: overwrites in place, extends the file when
\* the data runs past its end (a hole, if any, reads as zero).
write(bytes, pos, data) ==
  [i \in 1..Max(Len(bytes), pos + Len(data)) |->
     IF i > pos /\ i <= pos + Len(data) THEN data[i - pos]
     ELSE IF i <= Len(bytes) THEN bytes[i] ELSE 0]

IoOp(op, at, data) == [op |-> op, at |-> at, data |-> data]

Result(bytes, kind, reason, escaped, log) ==
  [bytes |-> bytes, kind |-> kind, reason |-> reason, escaped |-> escaped, log |-> log]

\* ------------------------------------------------------------------ fix_zip
SEEK_TAIL == 0 - 42            \* f.seek(-42, os.SEEK_END)
TAIL_LEN == 42                 \* f.read(42)
\* Slips in the write position: 42 added instead of 16 (the write lands at
\* the end of the file), or 20 (4 bytes too far).
SEEK_FIELD_AtEnd == (0 - 42) + 42
SEEK_FIELD_Eocd == (0 - 42) + 20
SEEK_FIELD == (0 - 42) + 16    \* f.seek(-42 + 16, os.SEEK_END)
\* The value 1 written big-endian.
PATCH_BigEndian == <<0, 0, 0, 1>>
PATCH == <<1, 0, 0, 0>>        \* f.write(b'\x01\x00\x00\x00')

\* The messages of the ValueErrors, without the file path.
MSG_START == "Wrong Zip signature at start of"
MSG_EOCD == "Cannot find Zip signature at end of"
MSG_OFFSET == "Bad offset at the end of"
MSG_ZIP64 == "Cannot find ZIP64 signature at end of"
MSG_DISKS == "Unknown \"Total Number of Disks\" value in"

\* The check of the local header left out.
HeaderCheck_Skipped(hdr) == "ok"

\* if f.read(4) != ZIP_LOCAL_HDR_SIG: raise ValueError
HeaderCheck(hdr) == IF hdr # ZIP_LOCAL_HDR_SIG THEN MSG_START ELSE "ok"

\* The sentinel checked before the EOCD signature.
TailChecks_Swapped(data) ==
  IF Slice(data, 36, 40) # CORRECT_OFFSET THEN MSG_OFFSET
  ELSE IF Slice(data, 20, 24) # ZIP_END_CENTRAL_HDR_SIG THEN MSG_EOCD
  ELSE IF Slice(data, 0, 4) # ZIP64_END_CENTRAL_LOC_HDR_SIG THEN MSG_ZIP64
  ELSE "ok"

\* The three checks on the 42-byte window, in the order the code makes them:
\* the message of the first ValueError raised, "ok" when none is.
TailChecks(data) ==
  IF Slice(data, 20, 24) # ZIP_END_CENTRAL_HDR_SIG THEN MSG_EOCD
  ELSE IF Slice(data, 36, 40) # CORRECT_OFFSET THEN MSG_OFFSET
  ELSE IF Slice(data, 0, 4) # ZIP64_END_CENTRAL_LOC_HDR_SIG THEN MSG_ZIP64
  ELSE "ok"

\* Any nonzero value taken for "already set".
DiskCase_NonzeroIsOne(field) == IF field = <<0, 0, 0, 0>> THEN "zero" ELSE "one"

\* match data[16:20]: which case is taken.
DiskCase(field) ==
  IF field = <<0, 0, 0, 0>> THEN "zero"
  ELSE IF field = <<1, 0, 0, 0>> THEN "one"
  ELSE "other"

\* The dry-run test left out, or inverted.
ShouldWrite_Always(dry_run) == TRUE
ShouldWrite_Inverted(dry_run) == dry_run

\* case b'\x00\x00\x00\x00': the else branch of "if dry_run" seeks and writes.
ShouldWrite(dry_run) == ~dry_run

\* The match statement, reached with the window in data and the log so far.
ApplyCorrection(bytes, data, dry_run, log) ==
  LET c == DiskCase(Slice(data, 16, 20)) IN
  IF c = "zero" THEN
    IF ShouldWrite(dry_run) THEN
      LET pos == seek_end(bytes, SEEK_FIELD) IN
      IF pos < 0 THEN
        Result(bytes, "IoError", "OSError", TRUE, Append(log, IoOp("seek", pos, <<>>)))
      ELSE
        Result(write(bytes, pos, PATCH), "Fixed", "Correction applied", FALSE,
               log \o <<IoOp("seek", pos, <<>>), IoOp("write", pos, PATCH)>>)
    ELSE Result(bytes, "WouldFix", "(dry-run) Correction applied", FALSE, log)
  ELSE IF c = "one" THEN Result(bytes, "AlreadyCorrect", "Nothing to do", FALSE, log)
  ELSE Result(bytes, "Invalid", MSG_DISKS, FALSE, log)

\* One invocation of fix_zip on a file [status, bytes]: the bytes it leaves,
\* what it reports (kind, reason), whether an exception left the function
\* (escaped), and the I/O calls it made on the handle.
\*   FileNotFoundError and ValueError are caught: message, "File skipped!".
\*   Any other OSError (PermissionError on open, EINVAL on seek) is not.
fix_zip(file, dry_run) ==
  IF file.status = "absent" THEN
    Result(file.bytes, "NotFound", "FileNotFoundError", FALSE, <<>>)
  ELSE IF file.status = "denied" THEN
    Result(file.bytes, "IoError", "PermissionError", TRUE, <<>>)
  ELSE
    LET bytes == file.bytes
        hdr == read(bytes, 0, 4)
        log1 == <<IoOp("read", 0, hdr)>>
    IN
    IF HeaderCheck(hdr) # "ok" THEN Result(bytes, "Invalid", HeaderCheck(hdr), FALSE, log1)
    ELSE
      LET pos == seek_end(bytes, SEEK_TAIL)
          log2 == Append(log1, IoOp("seek", pos, <<>>))
      IN
      IF pos < 0 THEN Result(bytes, "IoError", "OSError", TRUE, log2)
      ELSE
        LET data == read(bytes, pos, TAIL_LEN)
            log3 == Append(log2, IoOp("read", pos, data))
        IN
        IF TailChecks(data) # "ok" THEN Result(bytes, "Invalid", TailChecks(data), FALSE, log3)
        ELSE ApplyCorrection(bytes, data, dry_run, log3)

\* -------------------------------------------------------------- __main__
\* The loop of the script, run on what "for path in <list>" iterates over:
\* fix_zip on each path in turn; an exception that leaves fix_zip ends the
\* script there.  Gives the file system left and the invocations made.
RECURSIVE RunBatch(_, _, _, _)
RunBatch(fsys, paths, dry_run, done) ==
  IF paths = <<>> THEN [fs |-> fsys, calls |-> done, raised |-> FALSE]
  ELSE
    LET p == Head(paths)
        r == fix_zip(fsys[p], dry_run)
        fs2 == [fsys EXCEPT ![p].bytes = r.bytes]
        c == [path |-> p, dry_run |-> dry_run, before |-> fsys[p],
              after |-> fs2[p], res |-> r]
    IN IF r.escaped THEN [fs |-> fs2, calls |-> Append(done, c), raised |-> TRUE]
       ELSE RunBatch(fs2, Tail(paths), dry_run, Append(done, c))

\* ----------------------------------------------------------- the file system
Paths == {"a.zip", "b.zip"}

Filler(k) == (k * 37 + 11) % 256

\* Overlay data on bytes at 0-based offset pos, never past the end.
Put(bytes, pos, data) ==
  [i \in 1..Len(bytes) |->
     IF i > pos /\ i <= pos + Len(data) THEN data[i - pos] ELSE bytes[i]]

HdrVals == {ZIP_LOCAL_HDR_SIG, <<80, 75, 5, 6>>}
LocVals == {ZIP64_END_CENTRAL_LOC_HDR_SIG, <<80, 75, 6, 6>>}
EocdVals == {ZIP_END_CENTRAL_HDR_SIG, <<80, 75, 1, 2>>}
OffVals == {CORRECT_OFFSET, <<0, 16, 0, 0>>}
DiskVals == {<<0, 0, 0, 0>>, <<1, 0, 0, 0>>, <<2, 0, 0, 0>>, <<0, 0, 0, 1>>}

PutTail(b, loc, disk, eocd, off) ==
  LET n == Len(b) IN
  Put(Put(Put(Put(b, n - 42, loc), n - 26, disk), n - 22, eocd), n - 6, off)

\* A file of n bytes: filler, with the local header at the start and, when
\* it fits, the locator and EOCD fields at the end; where the two overlap
\* (n in 42..45) hdrLast says which is laid down last.
MkFile(n, hdr, loc, disk, eocd, off, hdrLast) ==
  LET base == [i \in 1..n |-> Filler(i - 1)] IN
  IF n < 42 THEN Put(base, 0, hdr)
  ELSE IF hdrLast THEN Put(PutTail(base, loc, disk, eocd, off), 0, hdr)
  ELSE PutTail(Put(base, 0, hdr), loc, disk, eocd, off)

ShortFiles == {MkFile(n, h, <<>>, <<>>, <<>>, <<>>, TRUE) : n \in 0..41, h \in HdrVals}

LongFiles ==
  UNION {UNION {{MkFile(n, h, l, d, e, o, last) :
                   n \in 42..(46 + MaxPad), h \in HdrVals, d \in DiskVals, last \in BOOLEAN}
                : l \in LocVals, e \in EocdVals} : o \in OffVals}

Present(b) == [status |-> "ok", bytes |-> b]
Absent == [status |-> "absent", bytes |-> <<>>]
Denied(b) == [status |-> "denied", bytes |-> b]

Defective46 ==
  MkFile(46, ZIP_LOCAL_HDR_SIG, ZIP64_END_CENTRAL_LOC_HDR_SIG, <<0, 0, 0, 0>>,
         ZIP_END_CENTRAL_HDR_SIG, CORRECT_OFFSET, TRUE)

TestFiles ==
  {Present(b) : b \in ShortFiles \cup LongFiles} \cup {Absent, Denied(Defective46)}

ScriptFiles == {Present(Defective46), Absent, Present(MkFile(10, ZIP_LOCAL_HDR_SIG, <<>>, <<>>, <<>>, <<>>, TRUE))}

RECURSIVE SeqsUpTo(_, _)
SeqsUpTo(S, n) ==
  IF n = 0 THEN {<<>>}
  ELSE LET prev == SeqsUpTo(S, n - 1) IN
       prev \cup {Append(q, x) : q \in prev, x \in S}

NoArgs == [files |-> <<>>, dry_run |-> FALSE]

\* ---------------------------------------------------------------- behaviour
\* Either fix_zip is used by an external caller (pc = "lib") on a file system
\* holding one of the test files, or the script is run with a command line.
Init ==
  /\ calls = <<>>
  /\ args = <<>>
  /\ \/ /\ pc = "lib"
        /\ argv = NoArgs
        /\ \E f \in TestFiles : fs = [p \in Paths |-> IF p = "a.zip" THEN f ELSE Absent]
     \/ /\ pc = "start"
        /\ argv \in [files : SeqsUpTo(Paths, MaxArgs), dry_run : BOOLEAN]
        /\ fs \in [Paths -> ScriptFiles]

\* An external caller invokes fix_zip(p, d).
Call(p, d) ==
  /\ pc = "lib"
  /\ Len(calls) < MaxCalls
  /\ LET r == fix_zip(fs[p], d)
         fs2 == [fs EXCEPT ![p].bytes = r.bytes]
     IN /\ fs' = fs2
        /\ calls' = Append(calls, [path |-> p, dry_run |-> d, before |-> fs[p],
                                   after |-> fs2[p], res |-> r])
  /\ UNCHANGED <<pc, argv, args>>

\* parser.parse_args(): 'files' has nargs='+', so an empty list is a usage
\* error (exit status 2); otherwise the namespace has the attributes
\* dry_run and files.
ParseArgs ==
  /\ pc = "start"
  /\ IF Len(argv.files) = 0
     THEN pc' = "usage" /\ UNCHANGED args
     ELSE pc' = "parsed" /\ args' = [dry_run |-> argv.dry_run, files |-> argv.files]
  /\ UNCHANGED <<fs, argv, calls>>

\* for path in args.file: fix_zip(path, args.dry_run)
\* Reading an attribute the namespace does not have raises AttributeError.
MainLoop ==
  /\ pc = "parsed"
  /\ IF "file" \in DOMAIN args
     THEN LET b == RunBatch(fs, args.file, args.dry_run, <<>>) IN
          /\ fs' = b.fs
          /\ calls' = b.calls
          /\ pc' = IF b.raised THEN "crashed" ELSE "exit"
     ELSE pc' = "crashed" /\ UNCHANGED <<fs, calls>>
  /\ UNCHANGED <<argv, args>>

Next ==
  \/ \E p \in Paths, d \in BOOLEAN : Call(p, d)
  \/ ParseArgs
  \/ MainLoop

Spec == Init /\ [][Next]_vars

\* ==================================================================== claims
\* The layout of the specification's table, by file-relative offset.
At(b, off, n) == IF off >= 0 /\ off + n <= Len(b) THEN SubSeq(b, off + 1, off + n) ELSE <<>>
HasLocalHeader(b) == At(b, 0, 4) = <<80, 75, 3, 4>>
HasLocator(b) == At(b, Len(b) - 42, 4) = <<80, 75, 6, 7>>
HasEocd(b) == At(b, Len(b) - 22, 4) = <<80, 75, 5, 6>>
HasSentinel(b) == At(b, Len(b) - 6, 4) = <<255, 255, 255, 255>>
DiskCount(b) == At(b, Len(b) - 26, 4)
FourPass(b) == HasLocalHeader(b) /\ HasEocd(b) /\ HasSentinel(b) /\ HasLocator(b)
DiskZero == <<0, 0, 0, 0>>
DiskOne == <<1, 0, 0, 0>>
Patchable(f) == f.status = "ok" /\ FourPass(f.bytes) /\ DiskCount(f.bytes) = DiskZero
Writes(log) == {i \in DOMAIN log : log[i].op = "write"}
Untouched(c) == c.after = c.before /\ Writes(c.res.log) = {}

\* C1: on a file passing the four signature/sentinel checks with a zero
\* disk count, a call with dry_run = false sets the bytes at len-26..len-22
\* to 01 00 00 00, changes no other byte and keeps the file length.
C1_PatchExactlyField ==
  \A i \in DOMAIN calls :
    LET c == calls[i]
        b == c.before.bytes
        a == c.after.bytes
        n == Len(b)
    IN (Patchable(c.before) /\ ~c.dry_run) =>
         /\ Len(a) = n
         /\ c.after.status = c.before.status
         /\ \A k \in 0..(n - 1) :
              a[k + 1] = IF k >= n - 26 /\ k < n - 22 THEN DiskOne[k - (n - 26) + 1]
                         ELSE b[k + 1]

C1_Witness ==
  \E i \in DOMAIN calls :
    /\ Patchable(calls[i].before) /\ ~calls[i].dry_run
    /\ Len(calls[i].before.bytes) > 46
    /\ calls[i].after # calls[i].before

\* C2: an invocation writes at most once, the write is 4 bytes long, it is
\* made only when dry_run is false, no read follows it, and the data read
\* before it (the first 4 bytes and the 42-byte window) satisfies the five
\* structural invariants; the file changes only through that write.
C2_WindowRead(c, w) ==
  \E i \in 1..(w - 1), j \in 1..(w - 1) :
    LET h == c.res.log[i]
        t == c.res.log[j]
    IN /\ h.op = "read" /\ h.at = 0 /\ h.data = <<80, 75, 3, 4>>
       /\ t.op = "read" /\ t.at = Len(c.before.bytes) - 42 /\ Len(t.data) = 42
       /\ t.data = At(c.before.bytes, t.at, 42)
       /\ At(t.data, 20, 4) = <<80, 75, 5, 6>>
       /\ At(t.data, 36, 4) = <<255, 255, 255, 255>>
       /\ At(t.data, 0, 4) = <<80, 75, 6, 7>>
       /\ At(t.data, 16, 4) \in {DiskZero, DiskOne}

C2_SingleGuardedWrite ==
  \A i \in DOMAIN calls :
    LET c == calls[i]
        log == c.res.log
    IN /\ Cardinality(Writes(log)) <= 1
       /\ (c.after # c.before => Writes(log) # {})
       /\ \A w \in Writes(log) :
            /\ Len(log[w].data) = 4
            /\ ~c.dry_run
            /\ \A j \in DOMAIN log : log[j].op = "read" => j < w
            /\ C2_WindowRead(c, w)

C2_Witness ==
  \E i \in DOMAIN calls, j \in DOMAIN calls :
    /\ Writes(calls[i].res.log) # {}
    /\ Patchable(calls[j].before) /\ calls[j].dry_run

\* C3: a call with dry_run = true leaves the file as it was, whatever the
\* file; on a defective file it reports WouldFix, and the next call with
\* dry_run = false on that file reports Fixed.
C3_DryRunNeverMutates ==
  \A i \in DOMAIN calls :
    LET c == calls[i] IN
    c.dry_run =>
      /\ Untouched(c)
      /\ (fs[c.path] = c.before \/ \E j \in (i + 1)..Len(calls) : calls[j].path = c.path)
      /\ (Patchable(c.before) => c.res.kind = "WouldFix")
      /\ \A j \in (i + 1)..Len(calls) :
           ( /\ Patchable(c.before)
             /\ calls[j].path = c.path /\ ~calls[j].dry_run
             /\ \A k \in (i + 1)..(j - 1) : calls[k].path = c.path => calls[k].dry_run )
           => calls[j].res.kind = "Fixed"

C3_Witness ==
  \E i \in DOMAIN calls, j \in DOMAIN calls :
    /\ i < j /\ calls[i].path = calls[j].path
    /\ calls[i].dry_run /\ calls[i].res.kind = "WouldFix"
    /\ ~calls[j].dry_run /\ calls[j].res.kind = "Fixed"

\* C4: two calls with dry_run = false on the same patchable file report
\* Fixed, then AlreadyCorrect, and the second one writes nothing.
C4_Idempotent ==
  \A i \in DOMAIN calls : \A j \in (i + 1)..Len(calls) :
    ( /\ Patchable(calls[i].before)
      /\ calls[j].path = calls[i].path
      /\ ~calls[i].dry_run /\ ~calls[j].dry_run
      /\ \A k \in (i + 1)..(j - 1) : calls[k].path = calls[i].path => calls[k].dry_run )
    => /\ calls[i].res.kind = "Fixed"
       /\ calls[j].res.kind = "AlreadyCorrect"
       /\ calls[j].before = calls[i].after
       /\ Untouched(calls[j])

C4_Witness ==
  \E i \in DOMAIN calls, j \in DOMAIN calls :
    /\ i < j /\ calls[i].path = calls[j].path
    /\ Patchable(calls[i].before)
    /\ ~calls[i].dry_run /\ ~calls[j].dry_run
    /\ calls[j].res.kind = "AlreadyCorrect"

\* C5: no invariant violation and no I/O failure leaves fix_zip as an error:
\* each is reported as the outcome of that file.
C5_NoErrorEscapes ==
  \A i \in DOMAIN calls : ~calls[i].res.escaped

C5_Witness ==
  \E i \in DOMAIN calls : calls[i].res.kind = "IoError" /\ calls[i].res.escaped

\* C6: on a file shorter than 46 bytes a call reports IoError or Invalid and
\* writes nothing, also where the 42-byte window overlaps the local header.
C6_ShortFileNeverWritten ==
  \A i \in DOMAIN calls :
    LET c == calls[i] IN
    (c.before.status = "ok" /\ Len(c.before.bytes) < 46) =>
      /\ c.res.kind \in {"IoError", "Invalid"}
      /\ Untouched(c)

C6_Witness ==
  \E i \in DOMAIN calls :
    LET c == calls[i] IN
    /\ c.before.status = "ok" /\ Len(c.before.bytes) \in 42..45
    /\ HasLocator(c.before.bytes) /\ HasEocd(c.before.bytes) /\ HasSentinel(c.before.bytes)
    /\ DiskCount(c.before.bytes) = DiskZero
    /\ ~c.dry_run /\ c.res.kind = "Invalid"

\* C7: when the four checks pass, a disk count other than 0 and 1 is
\* reported as Invalid (unknown disk-count value) and a disk count of 1 as
\* AlreadyCorrect; in both cases nothing is written, whatever dry_run is.
C7_DiskCountCases ==
  \A i \in DOMAIN calls :
    LET c == calls[i] IN
    (c.before.status = "ok" /\ FourPass(c.before.bytes)) =>
      /\ DiskCount(c.before.bytes) \notin {DiskZero, DiskOne} =>
           (c.res.kind = "Invalid" /\ c.res.reason = MSG_DISKS /\ Untouched(c))
      /\ DiskCount(c.before.bytes) = DiskOne =>
           (c.res.kind = "AlreadyCorrect" /\ Untouched(c))

C7_Witness ==
  \E i \in DOMAIN calls, j \in DOMAIN calls :
    /\ calls[i].before.status = "ok" /\ FourPass(calls[i].before.bytes)
    /\ DiskCount(calls[i].before.bytes) = <<2, 0, 0, 0>>
    /\ ~calls[i].dry_run /\ calls[i].res.reason = MSG_DISKS
    /\ calls[j].path = calls[i].path
    /\ calls[j].dry_run /\ calls[j].res.reason = MSG_DISKS

\* C8: once the script has ended, fix_zip has been invoked once for each
\* path of the command line, in the order given.
C8_OncePerPath ==
  pc \in {"exit", "crashed"} =>
    /\ Len(calls) = Len(argv.files)
    /\ \A i \in DOMAIN calls : calls[i].path = argv.files[i]

\* C9: the reason reported is that of the first failing check in the order
\* local header, EOCD signature, sentinel, locator signature, disk count;
\* the five reasons are distinct; a wrong local header is reported as such
\* whatever the rest of the file holds; an Invalid outcome leaves the file
\* untouched.
C9_FirstFailure(b) ==
  IF ~HasLocalHeader(b) THEN MSG_START
  ELSE IF ~HasEocd(b) THEN MSG_EOCD
  ELSE IF ~HasSentinel(b) THEN MSG_OFFSET
  ELSE IF ~HasLocator(b) THEN MSG_ZIP64
  ELSE IF DiskCount(b) \notin {DiskZero, DiskOne} THEN MSG_DISKS
  ELSE "ok"

C9_FirstFailingCheckReported ==
  /\ Cardinality({MSG_START, MSG_EOCD, MSG_OFFSET, MSG_ZIP64, MSG_DISKS}) = 5
  /\ \A i \in DOMAIN calls :
       LET c == calls[i]
           b == c.before.bytes
       IN c.before.status = "ok" =>
            /\ c.res.kind = "Invalid" =>
                 (c.res.reason = C9_FirstFailure(b) /\ Untouched(c) /\ ~c.res.escaped)
            /\ ~HasLocalHeader(b) => (c.res.kind = "Invalid" /\ c.res.reason = MSG_START)
            /\ (Len(b) >= 42 /\ C9_FirstFailure(b) # "ok") =>
                 (c.res.kind = "Invalid" /\ c.res.reason = C9_FirstFailure(b))

C9_Witness ==
  \E i \in DOMAIN calls :
    LET b == calls[i].before.bytes IN
    /\ calls[i].before.status = "ok" /\ HasLocalHeader(b)
    /\ HasEocd(b) /\ ~HasSentinel(b) /\ ~HasLocator(b)
    /\ DiskCount(b) \notin {DiskZero, DiskOne}
    /\ calls[i].res.kind = "Invalid" /\ calls[i].res.reason = MSG_OFFSET

\* C10: after a call with dry_run = false that reports Fixed or
\* AlreadyCorrect the file satisfies the five invariants with a disk count
\* of 1, and the patched region len-26..len-22 is disjoint from the local
\* header, the locator signature, the EOCD signature and the sentinel.
Disjoint(a, n, b, m) == a + n <= b \/ b + m <= a

C10_ResultWellFormed ==
  \A i \in DOMAIN calls :
    LET c == calls[i]
        a == c.after.bytes
        n == Len(a)
    IN (~c.dry_run /\ c.res.kind \in {"Fixed", "AlreadyCorrect"}) =>
         /\ FourPass(a)
         /\ DiskCount(a) = DiskOne
         /\ Disjoint(n - 26, 4, 0, 4)
         /\ Disjoint(n - 26, 4, n - 42, 4)
         /\ Disjoint(n - 26, 4, n - 22, 4)
         /\ Disjoint(n - 26, 4, n - 6, 4)

C10_Witness ==
  \E i \in DOMAIN calls :
    /\ ~calls[i].dry_run /\ calls[i].res.kind = "Fixed"
    /\ Len(calls[i].after.bytes) = 46
    /\ calls[i].after # calls[i].before

====
